---- MODULE Spec2Model ----
(***************************************************************************)
(* Model of the Aadhaar QR payload decoder of solstice-website             *)
(* (frontend/src/config.ts): parseAadhaarQR and its helpers.               *)
(*                                                                         *)
(* JavaScript strings are modelled as sequences of UTF-16 code units,      *)
(* byte arrays as sequences of naturals below 256.  JavaScript indices     *)
(* are 0-based; the element with JavaScript index i of a sequence s is     *)
(* s[i + 1].                                                               *)
(***************************************************************************)
EXTENDS Integers, Sequences, FiniteSets, TLC

VARIABLES
    qrData,            \* the scanned string handed to parseAadhaarQR
    gen,               \* how the environment built the payload behind qrData
    decoded,           \* what decompressByteArray yields for qrData
    pc,                \* "ready": scanned, not parsed yet; "done": parsed
    outcome,           \* result of the last parseAadhaarQR call
    signedData,        \* local of the last call (config.ts:91)
    delimiterIndices,  \* local of the last call (config.ts:95)
    calls,             \* external primitives the last call invoked, in order
    console,           \* console entries written since the scan
    baseline,          \* outcome and delimiter table before the first tail edit
    edits,             \* number of tail edits applied to the payload
    scanned,           \* the string handed to the format classifiers
    verdict,           \* what isPhysicalCardQR and isMadhaarQR answered
    localStorage,      \* the browser's localStorage, shared by all tabs
    runs,              \* the handleQRScan runs of OnboardingFlow, in start order
    proofsDb,          \* object store 'proofs' of the IndexedDB database SolsticeProofs
    requests,          \* the indexedDB.open requests of storeProofs, in call order
    now,               \* Date.now()
    fetched,           \* what the last getStoredProofs call resolved with
    route,             \* what ProtectedRoute rendered last
    scanner,           \* state and handler runs of the QRScanner component
    provider           \* the registerIdentity / verifyIdentity calls of SolsticeProvider

decoderVars == <<qrData, gen, decoded, pc, outcome, signedData,
                 delimiterIndices, calls, console, baseline, edits>>
classifierVars == <<scanned, verdict>>
onboardingVars == <<localStorage, runs>>
proofVars == <<proofsDb, requests, now, fetched>>
uiVars == <<route, scanner, provider>>

vars == <<decoderVars, classifierVars, onboardingVars, proofVars, uiVars>>

----------------------------------------------------------------------------
(* Program constants *)

SignatureLength == 256
DelimiterByte == 255
MaxDelimiters == 18
MinDelimiters == 7
MinQRLength == 100
Last4Start == 5
Last4End == 9

\* the table with the pincode and state positions one too high
FIELD_POSITIONS_SHIFTED ==
    ("REFERENCE_ID" :> 2) @@ ("NAME" :> 3) @@ ("DOB" :> 4) @@ ("GENDER" :> 5)
        @@ ("PINCODE" :> 12) @@ ("STATE" :> 14) @@ ("PHONE_NO" :> 17)
        @@ ("PHOTO" :> 18)

FIELD_POSITIONS ==
    ("REFERENCE_ID" :> 2) @@ ("NAME" :> 3) @@ ("DOB" :> 4) @@ ("GENDER" :> 5)
        @@ ("PINCODE" :> 11) @@ ("STATE" :> 13) @@ ("PHONE_NO" :> 17)
        @@ ("PHOTO" :> 18)

(* Code units used by the decoder *)
Dash == 45
Slash == 47
Comma == 44
Space == 32

\* undefined, as a value no string equals and every string compares with
Undefined == <<-1>>

\* 'Address not available'
AddressNotAvailable ==
    <<65, 100, 100, 114, 101, 115, 115, 32, 110, 111, 116, 32,
      97, 118, 97, 105, 108, 97, 98, 108, 101>>

----------------------------------------------------------------------------
(* Bounds of the model *)

MaxDelims == 20      \* most 255-valued bytes the environment puts in content
MaxEdits == 2        \* most tail edits applied to one payload

----------------------------------------------------------------------------
(* JavaScript library semantics used by the decoder *)

Min(a, b) == IF a < b THEN a ELSE b
Max(a, b) == IF a > b THEN a ELSE b

\* Relative index resolution of Array/TypedArray.prototype.slice
RelIndex(k, len) == IF k < 0 THEN Max(len + k, 0) ELSE Min(k, len)

\* arr.slice(start, end) with 0-based, possibly negative, arguments
Slice(arr, start, end) ==
    LET from == RelIndex(start, Len(arr))
        to   == RelIndex(end, Len(arr))
    IN  IF to <= from THEN <<>> ELSE SubSeq(arr, from + 1, to)

\* String.fromCharCode(b): the code unit ToUint16(b)
FromCharCode(b) == b % 65536

\* the bytes decoded as UTF-8 (two-byte sequences) instead of one by one
RECURSIVE Utf8From(_, _)
Utf8From(bytes, i) ==
    IF i > Len(bytes) THEN <<>>
    ELSE IF /\ i < Len(bytes)
            /\ bytes[i] \in 192..223
            /\ bytes[i + 1] \in 128..191
         THEN <<(bytes[i] - 192) * 64 + (bytes[i + 1] - 128)>>
                  \o Utf8From(bytes, i + 2)
         ELSE <<bytes[i]>> \o Utf8From(bytes, i + 1)

BytesToStringUtf8(bytes) == Utf8From(bytes, 1)

\* Array.from(bytes).map(b => String.fromCharCode(b)).join('')
BytesToString(bytes) == [i \in 1..Len(bytes) |-> FromCharCode(bytes[i])]

\* WhiteSpace and LineTerminator code units stripped by String.prototype.trim
WhiteSpace ==
    {9, 10, 11, 12, 13, 32, 160, 5760, 8232, 8233, 8239, 8287, 12288, 65279}
        \cup (8192..8202)

\* s.trim()
Trim(s) ==
    LET keep == {i \in 1..Len(s) : s[i] \notin WhiteSpace}
    IN  IF keep = {} THEN <<>>
        ELSE LET lo == CHOOSE i \in keep : \A j \in keep : i <= j
                 hi == CHOOSE i \in keep : \A j \in keep : j <= i
             IN  SubSeq(s, lo, hi)

\* /^\d+$/.test(s)
IsNumericString(s) == Len(s) >= 1 /\ \A i \in 1..Len(s) : s[i] \in 48..57

\* s.split('-'): the parts between the '-' characters
RECURSIVE SplitFrom(_, _, _)
SplitFrom(s, i, cur) ==
    IF i > Len(s) THEN <<cur>>
    ELSE IF s[i] = Dash THEN <<cur>> \o SplitFrom(s, i + 1, <<>>)
    ELSE SplitFrom(s, i + 1, Append(cur, s[i]))

SplitDash(s) == SplitFrom(s, 1, <<>>)

\* s.replace(/-/g, '/')
ReplaceDash(s) == [i \in 1..Len(s) |-> IF s[i] = Dash THEN Slash ELSE s[i]]

----------------------------------------------------------------------------
(* parseAadhaarQR *)

\* Step 3: decodedData.slice(0, decodedData.length - 256)
SignedRegion(decodedData) ==
    Slice(decodedData, 0, Len(decodedData) - SignatureLength)

\* the loop index at which the for loop next finds a byte equal to 255, going
\* up from index i; Len(signed) when it runs to the end of the region
NextDelimiter(signed, i) ==
    IF \E j \in i..(Len(signed) - 1) : signed[j + 1] = DelimiterByte
    THEN CHOOSE j \in i..(Len(signed) - 1) :
            /\ signed[j + 1] = DelimiterByte
            /\ \A k \in i..(j - 1) : signed[k + 1] # DelimiterByte
    ELSE Len(signed)

\* the scan without its break at the 18th delimiter
RECURSIVE ScanDelimitersNoBreak(_, _, _)
ScanDelimitersNoBreak(signed, i, found) ==
    LET j == NextDelimiter(signed, i)
    IN  IF j >= Len(signed) THEN found
        ELSE ScanDelimitersNoBreak(signed, j + 1, Append(found, j))

\* Step 4: the for loop collecting the indices of the bytes equal to 255,
\* left at the 18th; i is the 0-based loop index, found the table so far.
\* The iterations that find no delimiter change nothing but i and are
\* taken together.
RECURSIVE ScanDelimiters(_, _, _)
ScanDelimiters(signed, i, found) ==
    LET j == NextDelimiter(signed, i)
    IN  IF j >= Len(signed) THEN found
        ELSE LET pushed == Append(found, j)
             IN  IF Len(pushed) = MaxDelimiters THEN pushed
                 ELSE ScanDelimiters(signed, j + 1, pushed)

FindDelimiters(signed) == ScanDelimiters(signed, 0, <<>>)

\* extractField starting at the delimiter instead of behind it
ExtractFieldFromDelimiter(signed, delims, position) ==
    IF position >= Len(delims) THEN <<>>
    ELSE Trim(BytesToString(Slice(signed, delims[position], delims[position + 1])))

\* Step 5: extractField(position), for position >= 1; delims holds 0-based
\* indices, delims[k + 1] being the code's delimiterIndices[k]
ExtractField(signed, delims, position) ==
    IF position >= Len(delims) THEN <<>>
    ELSE LET startIdx == delims[position] + 1
             endIdx   == delims[position + 1]
         IN  Trim(BytesToString(Slice(signed, startIdx, endIdx)))

\* the fixed range taken one byte early
ExtractLast4OneEarly(signed) ==
    BytesToString(Slice(signed, Last4Start - 1, Last4End - 1))

\* signedData.slice(5, 9) mapped to characters, not trimmed
ExtractLast4(signed) == BytesToString(Slice(signed, Last4Start, Last4End))

\* the date with its three parts reversed, and the fallback left out
FormatDobReordered(dobRaw) ==
    LET dobParts == SplitDash(dobRaw)
    IN  IF Len(dobParts) = 3
        THEN dobParts[3] \o <<Slash>> \o dobParts[2] \o <<Slash>> \o dobParts[1]
        ELSE dobRaw

\* dobParts.length === 3 ? `${p[0]}/${p[1]}/${p[2]}` : dobRaw.replace(/-/g, '/')
FormatDob(dobRaw) ==
    LET dobParts == SplitDash(dobRaw)
    IN  IF Len(dobParts) = 3
        THEN dobParts[1] \o <<Slash>> \o dobParts[2] \o <<Slash>> \o dobParts[3]
        ELSE ReplaceDash(dobRaw)

\* the address loop over fields 6..10; i is the loop variable
RECURSIVE AddressFrom(_, _, _, _)
AddressFrom(signed, delims, i, address) ==
    IF i > 10 THEN address
    ELSE LET part == ExtractField(signed, delims, i)
         IN  AddressFrom(signed, delims, i + 1,
                 IF part # <<>>
                 THEN address \o (IF address # <<>> THEN <<Comma, Space>> ELSE <<>>)
                              \o part
                 ELSE address)

\* the address loop joining all five parts, the empty ones too
RECURSIVE AddressJoinAllFrom(_, _, _, _)
AddressJoinAllFrom(signed, delims, i, address) ==
    IF i > 10 THEN address
    ELSE AddressJoinAllFrom(signed, delims, i + 1,
             address \o (IF i > 6 THEN <<Comma, Space>> ELSE <<>>)
                     \o ExtractField(signed, delims, i))

BuildAddressJoinAll(signed, delims) == AddressJoinAllFrom(signed, delims, 6, <<>>)

BuildAddress(signed, delims) == AddressFrom(signed, delims, 6, <<>>)

\* value || fallback for a string value
OrElse(value, fallback) == IF value # <<>> THEN value ELSE fallback

\* the object literal parsedData
BuildRecord(signed, delims) ==
    [name               |-> ExtractField(signed, delims, FIELD_POSITIONS["NAME"]),
     dateOfBirth        |-> FormatDob(ExtractField(signed, delims, FIELD_POSITIONS["DOB"])),
     gender             |-> ExtractField(signed, delims, FIELD_POSITIONS["GENDER"]),
     address            |-> OrElse(BuildAddress(signed, delims), AddressNotAvailable),
     aadhaarLast4Digits |-> ExtractLast4(signed),
     pincode            |-> OrElse(ExtractField(signed, delims, FIELD_POSITIONS["PINCODE"]), Undefined),
     state              |-> OrElse(ExtractField(signed, delims, FIELD_POSITIONS["STATE"]), Undefined)]

\* Errors: every throw of the function is `new Error(message)`; a message is
\* kept as its wrapping prefix, its text and the count it interpolates
Message(text, found) == [prefix |-> "", text |-> text, found |-> found]
InvalidFormatError ==
    [name |-> "Error", message |-> Message("Invalid QR code format", -1)]
TooShortError ==
    [name |-> "Error", message |-> Message("QR code too short", -1)]
InsufficientDelimitersError(found) ==
    [name |-> "Error", message |-> Message("Insufficient delimiters found", found)]
\* what decompressByteArray throws
InflateError == [name |-> "Error", message |-> Message("inflate failed", -1)]
\* a thrown value that is no Error object and has no message property
ThrownString == [value |-> "incorrect header check"]
\* `${error.message}` in the catch block (error: any)
TemplateMessage(error) ==
    IF "message" \in DOMAIN error THEN error.message
    ELSE Message("undefined", -1)
\* the catch block rethrowing the caught error itself
Rethrown(error) ==
    IF "message" \in DOMAIN error THEN error
    ELSE [name |-> "", message |-> Message("", -1)]
\* the catch block: a new Error whose message embeds error.message
FailedToParse(error) ==
    [name |-> "Error",
     message |-> [TemplateMessage(error)
                     EXCEPT !.prefix = "Failed to parse mAadhaar QR code: "]]

\* a throw that hands the caller the fields extracted so far as well
ThrownWithPartialRecord(error, signed, delims, primitives, log) ==
    [outcome |-> [kind |-> "error", error |-> error,
                  record |-> [aadhaarLast4Digits |-> Slice(signed, Last4Start, Last4End)]],
     signedData |-> signed, delimiterIndices |-> delims,
     calls |-> primitives, console |-> log]

Thrown(error, signed, delims, primitives, log) ==
    [outcome |-> [kind |-> "error", error |-> error],
     signedData |-> signed, delimiterIndices |-> delims,
     calls |-> primitives, console |-> log]

\* a return that leaves the console alone
ReturnedSilently(record, signed, delims, primitives, log) ==
    [outcome |-> [kind |-> "record", record |-> record],
     signedData |-> signed, delimiterIndices |-> delims,
     calls |-> primitives, console |-> <<>>]

Returned(record, signed, delims, primitives, log) ==
    [outcome |-> [kind |-> "record", record |-> record],
     signedData |-> signed, delimiterIndices |-> delims,
     calls |-> primitives, console |-> log]

\* the count check with <= in place of <
HasMoreThanMinDelimiters(delims) == ~(Len(delims) <= MinDelimiters)

\* if (delimiterIndices.length < 7) throw: TRUE when the table passes
HasEnoughDelimiters(delims) == ~(Len(delims) < MinDelimiters)

\* The input checks in front of the try block
PassesDigitCheck(q) == IsNumericString(q)
\* the length check comparing against 99 instead of 100
PassesLengthCheckOffByOne(q) == ~(Len(q) < MinQRLength - 1)
PassesLengthCheck(q) == ~(Len(q) < MinQRLength)

\* parseAadhaarQR(q), where inflated is what convertBigIntToByteArray followed
\* by decompressByteArray yields for q: [ok |-> TRUE, bytes |-> ...] or
\* [ok |-> FALSE, thrown |-> ...] when decompression throws
ParseAadhaarQR(q, inflated) ==
    IF ~PassesDigitCheck(q) THEN Thrown(InvalidFormatError, <<>>, <<>>, <<>>, <<>>)
    ELSE IF ~PassesLengthCheck(q) THEN Thrown(TooShortError, <<>>, <<>>, <<>>, <<>>)
    ELSE
      LET primitives == <<"convertBigIntToByteArray", "decompressByteArray">>
          logStart == <<"log", "log", "log", "log", "log">>
      IN  IF ~inflated.ok
          THEN Thrown(FailedToParse(inflated.thrown), <<>>, <<>>, primitives,
                      logStart \o <<"error">>)
          ELSE
            LET signed == SignedRegion(inflated.bytes)
                delims == FindDelimiters(signed)
                logScan == logStart \o <<"log", "log", "log">>
            IN  IF ~HasEnoughDelimiters(delims)
                THEN Thrown(FailedToParse(InsufficientDelimitersError(Len(delims))),
                            signed, delims, primitives, logScan \o <<"error">>)
                ELSE Returned(BuildRecord(signed, delims), signed, delims,
                              primitives,
                              logScan \o <<"log", "log", "log", "log", "log", "log", "log", "log">>)

----------------------------------------------------------------------------
(* The environment: scanned strings and the payloads behind them *)

\* a string of len characters, the digits 0..9 in turn, with the character
\* at position bad (when in 1..len) replaced by the code unit c
MakeQR(len, bad, c) ==
    [i \in 1..len |-> IF i = bad THEN c ELSE 48 + (i % 10)]

ValidQRs == {MakeQR(MinQRLength, 0, 0)}

InvalidQRs ==
    {MakeQR(len, 0, 0) : len \in {0, 1, MinQRLength - 1}}
        \cup {MakeQR(len, bad, c) : len \in {3, MinQRLength},
                                    bad \in {1, 2, 3, MinQRLength},
                                    c \in {120, 45, 10}}

\* name, date of birth and gender as put in fields 3, 4 and 5, each with the
\* text a reader of the payload expects back, and which of the fields 6..13
\* carry text
Profiles ==
    << [name |-> <<65, 66>>,                 nameText |-> <<65, 66>>,
        dob |-> <<49, 53, 45, 48, 56, 45, 49, 57, 57, 48>>,
        dobText |-> <<49, 53, 47, 48, 56, 47, 49, 57, 57, 48>>,
        gender |-> <<77>>,                   genderText |-> <<77>>,
        present |-> 6..13],
       [name |-> <<32, 65, 32, 66, 9>>,      nameText |-> <<65, 32, 66>>,
        dob |-> <<49, 57, 57, 48, 48, 56, 49, 53>>,
        dobText |-> <<49, 57, 57, 48, 48, 56, 49, 53>>,
        gender |-> <<32, 70, 32>>,           genderText |-> <<70>>,
        present |-> {}],
       [name |-> <<74, 195, 169>>,           nameText |-> <<74, 195, 169>>,
        dob |-> <<32, 49, 53, 45, 48, 56, 45, 49, 57, 57, 48, 10>>,
        dobText |-> <<49, 53, 47, 48, 56, 47, 49, 57, 57, 48>>,
        gender |-> <<84>>,                   genderText |-> <<84>>,
        present |-> {7, 9, 13}],
       [name |-> <<160, 82, 233, 160>>,      nameText |-> <<82, 233>>,
        dob |-> <<49, 53, 45, 48, 56>>,
        dobText |-> <<49, 53, 47, 48, 56>>,
        gender |-> <<>>,                     genderText |-> <<>>,
        present |-> {10, 11}],
       [name |-> <<>>,                       nameText |-> <<>>,
        dob |-> <<49, 45, 50, 45, 51, 45, 52>>,
        dobText |-> <<49, 47, 50, 47, 51, 47, 52>>,
        gender |-> <<70>>,                   genderText |-> <<70>>,
        present |-> 6..13],
       [name |-> <<90>>,                     nameText |-> <<90>>,
        dob |-> <<>>,
        dobText |-> <<>>,
        gender |-> <<77>>,                   genderText |-> <<77>>,
        present |-> {8}],
       [name |-> <<32, 32>>,                 nameText |-> <<>>,
        dob |-> <<49, 53, 47, 48, 56, 47, 49, 57, 57, 48>>,
        dobText |-> <<49, 53, 47, 48, 56, 47, 49, 57, 57, 48>>,
        gender |-> <<77>>,                   genderText |-> <<77>>,
        present |-> {6, 10, 12}] >>

\* length and byte value of what follows the content in the decoded buffer
Paddings ==
    {<<0, 0>>, <<100, 0>>, <<150, 255>>, <<SignatureLength, 0>>,
     <<SignatureLength, 255>>, <<SignatureLength + 1, 255>>,
     <<SignatureLength + 40, 0>>}

Layouts == {"v2", "long", "blank"}

\* the bytes in front of the first delimiter
HeaderBytes(g) ==
    CASE g.layout = "v2" -> <<86, 50>>
      [] g.layout = "long" -> <<86, 50, 48, 49, 50, 51, 52, 53, 54, 55>>
      [] OTHER -> <<>>

\* the bytes the payload carries after its n-th delimiter (n >= 1)
FieldBytes(g, n) ==
    IF g.layout = "blank" THEN <<>>
    ELSE CASE n = 1 -> <<51>>
           [] n = 2 -> <<49, 50, 51, 52, 50, 48>>
           [] n = FIELD_POSITIONS["NAME"] -> Profiles[g.profile].name
           [] n = FIELD_POSITIONS["DOB"] -> Profiles[g.profile].dob
           [] n = FIELD_POSITIONS["GENDER"] -> Profiles[g.profile].gender
           [] n \in 6..13 -> IF n \in Profiles[g.profile].present THEN <<64 + n, 48 + (n % 10)>>
                             ELSE IF n = 8 THEN <<Space>> ELSE <<>>
           [] OTHER -> <<80>>

RECURSIVE ContentUpTo(_, _)
ContentUpTo(g, n) ==
    IF n = 0 THEN HeaderBytes(g)
    ELSE ContentUpTo(g, n - 1) \o <<DelimiterByte>> \o FieldBytes(g, n)

\* the decoded buffer: header, g.d delimited fields, padding
PayloadBytes(g) ==
    ContentUpTo(g, g.d) \o [i \in 1..g.pad[1] |-> g.pad[2]]

\* nothing thrown
NoThrow == [value |-> "none"]

Gens ==
    {[inflates |-> TRUE, d |-> d, layout |-> l, profile |-> p, pad |-> pad,
      thrown |-> NoThrow] :
        d \in 0..MaxDelims, l \in Layouts \ {"blank"},
        p \in 1..Len(Profiles), pad \in Paddings}
    \cup
    {[inflates |-> TRUE, d |-> d, layout |-> "blank", profile |-> 1,
      pad |-> pad, thrown |-> NoThrow] : d \in 0..MaxDelims, pad \in Paddings}
    \cup
    {[inflates |-> FALSE, d |-> 0, layout |-> "blank", profile |-> 1,
      pad |-> <<0, 0>>, thrown |-> t] : t \in {InflateError, ThrownString}}

\* payloads paired with the strings the decoder rejects
FewGens ==
    {g \in Gens : /\ g.d \in {0, MaxDelimiters}
                  /\ g.profile \in {1, 2}
                  /\ g.layout \in {"v2", "blank"}
                  /\ g.pad = <<SignatureLength, 0>>}

\* convertBigIntToByteArray followed by decompressByteArray, for payload g
Inflate(g) ==
    IF g.inflates THEN [ok |-> TRUE, bytes |-> PayloadBytes(g), thrown |-> NoThrow]
    ELSE [ok |-> FALSE, bytes |-> <<>>, thrown |-> g.thrown]

Scans ==
    {<<q, g>> : q \in ValidQRs, g \in Gens}
        \cup {<<q, g>> : q \in InvalidQRs, g \in FewGens}

NoOutcome == [kind |-> "none"]

----------------------------------------------------------------------------
(* State machine *)

\* localStorage without any item
EmptyStorage == [key \in {} |-> ""]

\* no string classified, no onboarding run, empty localStorage
ClassifierIdle == scanned = <<>> /\ verdict = [kind |-> "none"]
OnboardingIdle == localStorage = EmptyStorage /\ runs = <<>>

\* the object store without any record
EmptyDb == [type \in {} |-> ""]

\* no proof stored or asked for, nothing rendered, no handler of QRScanner
\* or SolsticeProvider called
ProofStoreIdle ==
    /\ proofsDb = EmptyDb
    /\ requests = <<>>
    /\ now = 0
    /\ fetched = [kind |-> "none"]
\* useState(null) of QRScanner: no commitment, no parsed data
NoCommitment == <<-1>>
NoData == [kind |-> "null"]

\* QRScanner as mounted: its useState initial values, no handler called
ScannerMounted ==
    [commitment |-> NoCommitment, parsedData |-> NoData, step |-> "scan",
     generatingProofs |-> FALSE, handlers |-> <<>>]

\* SolsticeProvider as mounted: not loading, no error, no call made
NoError == "none"
ProviderMounted == [loading |-> FALSE, error |-> NoError, calls |-> <<>>]

UiIdle ==
    /\ route = [kind |-> "none"]
    /\ scanner = ScannerMounted
    /\ provider = ProviderMounted

Init ==
    /\ ClassifierIdle
    /\ OnboardingIdle
    /\ ProofStoreIdle
    /\ UiIdle
    /\ \E s \in Scans :
          /\ qrData = s[1]
          /\ gen = s[2]
          /\ decoded = Inflate(s[2])
    /\ pc = "ready"
    /\ outcome = NoOutcome
    /\ signedData = <<>>
    /\ delimiterIndices = <<>>
    /\ calls = <<>>
    /\ console = <<>>
    /\ baseline = NoOutcome
    /\ edits = 0

\* the caller runs parseAadhaarQR(qrData)
Parse ==
    /\ pc = "ready"
    /\ LET r == ParseAadhaarQR(qrData, decoded)
       IN  /\ outcome' = r.outcome
           /\ signedData' = r.signedData
           /\ delimiterIndices' = r.delimiterIndices
           /\ calls' = r.calls
           /\ console' = console \o r.console
    /\ pc' = "done"
    /\ UNCHANGED <<qrData, gen, decoded, baseline, edits>>
    /\ UNCHANGED <<classifierVars, onboardingVars, proofVars, uiVars>>

\* 0-based indices of the signed-region bytes equal to 255 behind the last
\* recorded delimiter
TailDelimiters ==
    {i \in 0..(Len(signedData) - 1) :
        /\ i > delimiterIndices[Len(delimiterIndices)]
        /\ signedData[i + 1] = DelimiterByte}

\* a tail edit applies to a decoded payload whose 18 delimiters were all
\* recorded and whose signature is complete
CanEditTail ==
    /\ pc = "done"
    /\ edits < MaxEdits
    /\ outcome.kind = "record"
    /\ Len(delimiterIndices) = MaxDelimiters
    /\ Len(decoded.bytes) > SignatureLength

EditTail(bytes) ==
    /\ decoded' = [decoded EXCEPT !.bytes = bytes]
    /\ qrData' = Append(qrData, 48 + edits)
    /\ baseline' = IF edits = 0
                   THEN [kind |-> "kept", outcome |-> outcome,
                         delimiterIndices |-> delimiterIndices]
                   ELSE baseline
    /\ edits' = edits + 1
    /\ pc' = "ready"
    /\ UNCHANGED <<gen, outcome, signedData, delimiterIndices, calls, console>>
    /\ UNCHANGED <<classifierVars, onboardingVars, proofVars, uiVars>>

\* the environment presents the payload with one more 255-valued byte in the
\* signed region, right behind the 18th delimiter or at the region's end
AddTailDelimiter ==
    /\ CanEditTail
    /\ \E at \in {delimiterIndices[MaxDelimiters] + 1, Len(signedData)} :
          EditTail(SubSeq(decoded.bytes, 1, at) \o <<DelimiterByte>>
                     \o SubSeq(decoded.bytes, at + 1, Len(decoded.bytes)))

\* the environment presents the payload without one of the 255-valued bytes
\* that follow the 18th delimiter in the signed region
RemoveTailDelimiter ==
    /\ CanEditTail
    /\ \E at \in TailDelimiters :
          /\ \A other \in TailDelimiters : at <= other
          /\ EditTail(SubSeq(decoded.bytes, 1, at)
                        \o SubSeq(decoded.bytes, at + 2, Len(decoded.bytes)))

Next == Parse \/ AddTailDelimiter \/ RemoveTailDelimiter

Spec == Init /\ [][Next]_vars

----------------------------------------------------------------------------
(* Format classifiers: isMadhaarQR, isPhysicalCardQR *)

MadhaarMinLength == 100

\* '<?xml', '<PrintLetterBarcodeData', '<UidData'
XmlMarker == <<60, 63, 120, 109, 108>>
PrintLetterMarker == 
    <<60, 80, 114, 105, 110, 116, 76, 101, 116, 116, 101, 114,
     66, 97, 114, 99, 111, 100, 101, 68, 97, 116, 97>>
UidDataMarker == <<60, 85, 105, 100, 68, 97, 116, 97>>

\* s.includes(pattern)
Includes(s, pattern) ==
    \E k \in 0..(Len(s) - Len(pattern)) :
        SubSeq(s, k + 1, k + Len(pattern)) = pattern

\* s.startsWith(pattern)
StartsWith(s, pattern) ==
    Len(s) >= Len(pattern) /\ SubSeq(s, 1, Len(pattern)) = pattern

\* the length test alone
IsLongEnough(q) == Len(q) >= MadhaarMinLength

\* /^\d+$/.test(qrData) && qrData.length >= 100
IsMadhaarQR(q) == IsNumericString(q) /\ Len(q) >= MadhaarMinLength

\* the markers looked for at the start of the string only
IsPhysicalCardQRAtStart(q) ==
    \/ StartsWith(q, XmlMarker)
    \/ StartsWith(q, PrintLetterMarker)
    \/ StartsWith(q, UidDataMarker)

\* qrData.includes('<?xml') || qrData.includes('<PrintLetterBarcodeData')
\*   || qrData.includes('<UidData')
IsPhysicalCardQR(q) ==
    \/ Includes(q, XmlMarker)
    \/ Includes(q, PrintLetterMarker)
    \/ Includes(q, UidDataMarker)

\* the shape when the physical-card branch is left out
PayloadShapeNoPhysical(q) ==
    IF IsMadhaarQR(q) THEN "mAadhaar" ELSE "unrecognized"

\* the shape under which QRScanner.handleQRData treats the string: the
\* physical-card branch first, then the mAadhaar test
PayloadShape(q) ==
    IF IsPhysicalCardQR(q) THEN "physical"
    ELSE IF ~IsMadhaarQR(q) THEN "unrecognized"
    ELSE "mAadhaar"

\* n decimal digits
Digits(n) == [i \in 1..n |-> 48 + (i % 10)]

SamplePrefixes == {<<>>, <<49, 50>>, Digits(MadhaarMinLength - 1)}

\* nothing, the three markers, and near misses: '<?xm', '<uiddata', '?xml',
\* '<PrintLetterBarcodeDat', and '<' alone
SampleMiddles ==
    {<<>>, XmlMarker, PrintLetterMarker, UidDataMarker,
     <<60, 63, 120, 109>>, <<60, 117, 105, 100, 100, 97, 116, 97>>,
     <<63, 120, 109, 108>>, 
     <<60, 80, 114, 105, 110, 116, 76, 101, 116, 116, 101, 114, 66, 97, 114, 99, 111, 100, 101, 68, 97, 116>>,
     <<60>>}

\* nothing, '7', ' x', a line feed, and 100 digits
SampleSuffixes == {<<>>, <<55>>, <<32, 120>>, <<10>>, Digits(MadhaarMinLength)}

Samples ==
    {p \o m \o x : p \in SamplePrefixes, m \in SampleMiddles, x \in SampleSuffixes}

\* the decoder and the onboarding flow at rest
DecoderIdle ==
    /\ qrData = <<>>
    /\ gen = NoThrow
    /\ decoded = NoThrow
    /\ pc = "idle"
    /\ outcome = NoOutcome
    /\ signedData = <<>>
    /\ delimiterIndices = <<>>
    /\ calls = <<>>
    /\ console = <<>>
    /\ baseline = NoOutcome
    /\ edits = 0

ClassifyInit ==
    /\ DecoderIdle
    /\ OnboardingIdle
    /\ ProofStoreIdle
    /\ UiIdle
    /\ scanned \in Samples
    /\ verdict = [kind |-> "none"]

\* the caller asks both classifiers about the scanned string
Classify ==
    /\ verdict.kind = "none"
    /\ verdict' = [kind |-> "classified",
                   physical |-> IsPhysicalCardQR(scanned),
                   mAadhaar |-> IsMadhaarQR(scanned),
                   shape |-> PayloadShape(scanned)]
    /\ UNCHANGED <<scanned, decoderVars, onboardingVars, proofVars, uiVars>>

ClassifyNext == Classify

ClassifySpec == ClassifyInit /\ [][ClassifyNext]_vars

----------------------------------------------------------------------------
(* Properties *)

\* the last call got as far as the delimiter scan
ScanRan == pc = "done" /\ calls # <<>> /\ decoded.ok

\* 0-based indices of all bytes of the signed region equal to 255
DelimiterPositions == {i \in 0..(Len(signedData) - 1) : signedData[i + 1] = 255}

\* the bytes of the signed region at the 0-based indices strictly between
\* lo and hi, each as the character with that code point
CharsBetween(lo, hi) == [j \in 1..(hi - lo - 1) |-> signedData[lo + 1 + j]]

FieldNumbers == 1..(MaxDelims + 2)

\* C1: with k delimiters recorded, extractField(n) for 1 <= n < k is the
\* trimmed text of exactly the bytes strictly between the delimiters with
\* indices n-1 and n of the table, and for n >= k it is the empty string.
C1_ExtractFieldBounds ==
    ScanRan =>
        \A n \in FieldNumbers :
            LET k == Len(delimiterIndices)
                field == ExtractField(signedData, delimiterIndices, n)
            IN  /\ n < k =>
                     /\ field = Trim(CharsBetween(delimiterIndices[n],
                                                  delimiterIndices[n + 1]))
                     /\ \A j \in 1..Len(field) : field[j] # 255
                /\ n >= k => field = <<>>

C1_Witness ==
    /\ ScanRan
    /\ Len(delimiterIndices) = 12
    /\ ExtractField(signedData, delimiterIndices, 3) = <<65, 32, 66>>
    /\ ExtractField(signedData, delimiterIndices, 12) = <<>>

\* C2: the delimiter table holds, in increasing order, the indices of the
\* first min(18, c) bytes equal to 255 of the signed region, never more than
\* 18; and a payload that differs only by 255-valued bytes added or removed
\* behind the 18th delimiter has the same table and the same record.
C2_DelimiterTable ==
    /\ ScanRan =>
          LET k == Len(delimiterIndices)
              c == Cardinality(DelimiterPositions)
          IN  /\ k = Min(MaxDelimiters, c)
              /\ k <= MaxDelimiters
              /\ \A n \in 1..k :
                    /\ delimiterIndices[n] \in DelimiterPositions
                    /\ Cardinality({i \in DelimiterPositions :
                                       i < delimiterIndices[n]}) = n - 1
    /\ (pc = "done" /\ edits > 0) =>
          /\ outcome = baseline.outcome
          /\ delimiterIndices = baseline.delimiterIndices

C2_Witness ==
    /\ pc = "done"
    /\ edits > 0
    /\ outcome.kind = "record"
    /\ Cardinality(DelimiterPositions) > MaxDelimiters
    /\ Len(signedData) # Len(SignedRegion(PayloadBytes(gen)))

HasNonDigit(q) == \E i \in 1..Len(q) : q[i] < 48 \/ q[i] > 57

\* C4: on an input with a non-digit character or fewer than 100 characters
\* the call fails and invokes neither external primitive.
C4_RejectsBeforePrimitives ==
    (pc = "done" /\ (HasNonDigit(qrData) \/ Len(qrData) < 100)) =>
        /\ calls = <<>>
        /\ outcome.kind = "error"

C4_Witness ==
    /\ pc = "done"
    /\ Len(qrData) = 100
    /\ HasNonDigit(qrData)
    /\ gen.d = MaxDelimiters
    /\ calls = <<>>
    /\ outcome.kind = "error"

\* the decoded buffer of the last call
DecodedBytes == decoded.bytes

\* C5: the signed region is the decoded buffer of length L without its last
\* 256 bytes: its first L - 256 bytes when L > 256, and empty when L <= 256.
C5_SignedRegionIsBufferMinusSignature ==
    ScanRan =>
        LET L == Len(DecodedBytes)
        IN  /\ L > 256 => signedData = [i \in 1..(L - 256) |-> DecodedBytes[i]]
            /\ L <= 256 => signedData = <<>>

\* C6: a record is returned only for a decoded buffer longer than 256 bytes.
C6_RecordOnlyBeyondSignature ==
    (pc = "done" /\ outcome.kind = "record") => Len(DecodedBytes) > 256

\* s has the form DD/MM/YYYY: two characters, '/', two characters, '/', four
\* characters, none of them '-'
IsDDMMYYYY(s) ==
    /\ Len(s) = 10
    /\ s[3] = 47
    /\ s[6] = 47
    /\ \A i \in 1..Len(s) : s[i] # 45

\* C7: the dateOfBirth of every returned record has the form DD/MM/YYYY.
C7_DateOfBirthForm ==
    (pc = "done" /\ outcome.kind = "record") =>
        IsDDMMYYYY(outcome.record.dateOfBirth)

\* positions of the '-' characters of s
DashPositions(s) == {i \in 1..Len(s) : s[i] = 45}

\* the trimmed text of field 4 of the last call
DobRaw == ExtractField(signedData, delimiterIndices, 4)

\* C8: with exactly two '-' in the trimmed field-4 text its three parts are
\* joined with '/' in their order; otherwise every '-' becomes '/' and every
\* other character stays, so a text without '-' comes back unchanged.
C8_DateOfBirthRule ==
    (pc = "done" /\ outcome.kind = "record") =>
        LET dob == outcome.record.dateOfBirth
            dashes == DashPositions(DobRaw)
        IN  /\ Cardinality(dashes) = 2 =>
                 LET p1 == CHOOSE i \in dashes : \A j \in dashes : i <= j
                     p2 == CHOOSE i \in dashes : \A j \in dashes : j <= i
                 IN  dob = SubSeq(DobRaw, 1, p1 - 1) \o <<47>>
                             \o SubSeq(DobRaw, p1 + 1, p2 - 1) \o <<47>>
                             \o SubSeq(DobRaw, p2 + 1, Len(DobRaw))
            /\ Cardinality(dashes) # 2 =>
                 /\ Len(dob) = Len(DobRaw)
                 /\ \A i \in 1..Len(dob) :
                       dob[i] = IF i \in dashes THEN 47 ELSE DobRaw[i]
            /\ dashes = {} => dob = DobRaw
            /\ (gen.d > 4 /\ gen.layout # "blank") =>
                 dob = Profiles[gen.profile].dobText

C8_Witness ==
    /\ pc = "done"
    /\ outcome.kind = "record"
    /\ DobRaw = <<49, 57, 57, 48, 48, 56, 49, 53>>
    /\ outcome.record.dateOfBirth = <<49, 57, 57, 48, 48, 56, 49, 53>>

\* C9 as claimed: aadhaarLast4Digits is exactly four characters, the bytes at
\* offsets 5..8 of the signed region, all in front of the first delimiter.
C9_Last4BeforeFirstDelimiter ==
    (pc = "done" /\ outcome.kind = "record") =>
        /\ Len(outcome.record.aadhaarLast4Digits) = 4
        /\ outcome.record.aadhaarLast4Digits = [j \in 1..4 |-> signedData[5 + j]]
        /\ delimiterIndices[1] > 8

\* C9 as amended: aadhaarLast4Digits is the untrimmed text of the bytes the
\* signed region has at offsets 5..8, four characters when the region holds
\* at least 9 bytes and fewer otherwise, wherever the delimiters lie.
C9_Last4ByAbsoluteOffset ==
    (pc = "done" /\ outcome.kind = "record") =>
        LET n == Len(signedData)
            last4 == outcome.record.aadhaarLast4Digits
        IN  /\ last4 = [j \in 1..(Min(9, n) - 5) |-> signedData[5 + j]]
            /\ n >= 9 => Len(last4) = 4
            /\ n < 9 => Len(last4) = n - 5

C9_Witness ==
    /\ pc = "done"
    /\ outcome.kind = "record"
    /\ delimiterIndices[1] = 2
    /\ delimiterIndices[2] = 4
    /\ outcome.record.aadhaarLast4Digits = <<49, 50, 51, 52>>

\* the text expected back from field n of the payload behind the last call
ExpectedText(n) ==
    IF gen.layout = "blank" THEN <<>>
    ELSE IF n = 3 THEN Profiles[gen.profile].nameText
    ELSE Profiles[gen.profile].genderText

\* C10: for a signed region with exactly 18 delimiter bytes the name is the
\* content of field 3 and the gender that of field 5: the bytes between the
\* delimiters, each as the character with that code point, trimmed.
C10_NameAndGender ==
    (ScanRan /\ Cardinality(DelimiterPositions) = 18 /\ gen.d = 18) =>
        /\ outcome.kind = "record"
        /\ outcome.record.name = ExpectedText(3)
        /\ outcome.record.gender = ExpectedText(5)
        /\ outcome.record.name =
              Trim(CharsBetween(delimiterIndices[3], delimiterIndices[4]))
        /\ outcome.record.gender =
              Trim(CharsBetween(delimiterIndices[5], delimiterIndices[6]))

C10_Witness ==
    /\ ScanRan
    /\ Cardinality(DelimiterPositions) = 18
    /\ gen.d = 18
    /\ outcome.kind = "record"
    /\ outcome.record.name = <<74, 195, 169>>
    /\ outcome.record.gender = <<84>>

\* the trimmed text of field n of the last call
FieldText(n) == ExtractField(signedData, delimiterIndices, n)

\* the fields among 6..10 of the last call that are not empty
AddressParts == {n \in 6..10 : FieldText(n) # <<>>}

\* where the text of address part n starts in the joined address: behind the
\* earlier parts, each followed by ', '
RECURSIVE PartOffset(_)
PartOffset(n) ==
    IF n <= 6 THEN 0
    ELSE PartOffset(n - 1)
           + (IF (n - 1) \in AddressParts THEN Len(FieldText(n - 1)) + 2 ELSE 0)

\* the addresses expected back from the payloads built with each profile
\* when fields 6..10 are complete
ExpectedAddress ==
    << <<70, 54, 44, 32, 71, 55, 44, 32, 72, 56, 44, 32, 73, 57, 44, 32, 74, 48>>,
       AddressNotAvailable,
       <<71, 55, 44, 32, 73, 57>>,
       <<74, 48>>,
       <<70, 54, 44, 32, 71, 55, 44, 32, 72, 56, 44, 32, 73, 57, 44, 32, 74, 48>>,
       <<72, 56>>,
       <<70, 54, 44, 32, 74, 48>> >>

\* C11: the address is the texts of fields 6..10 in order, empty ones
\* skipped, joined by ', '; it is 'Address not available' when all five are
\* empty, and never the empty string.
C11_Address ==
    (pc = "done" /\ outcome.kind = "record") =>
        LET address == outcome.record.address
        IN  /\ address # <<>>
            /\ AddressParts = {} <=> address = AddressNotAvailable
            /\ AddressParts # {} =>
                 /\ Len(address) = PartOffset(11) - 2
                 /\ \A n \in AddressParts :
                       /\ SubSeq(address, PartOffset(n) + 1,
                                 PartOffset(n) + Len(FieldText(n))) = FieldText(n)
                       /\ PartOffset(n) > 0 =>
                            /\ address[PartOffset(n) - 1] = 44
                            /\ address[PartOffset(n)] = 32
            /\ (gen.layout = "blank" /\ edits = 0 /\ gen.pad[2] = 0) =>
                 address = AddressNotAvailable
            /\ (gen.layout # "blank" /\ gen.d >= 11
                  /\ Len(delimiterIndices) >= 11) =>
                 address = ExpectedAddress[gen.profile]

C11_Witness ==
    /\ pc = "done"
    /\ outcome.kind = "record"
    /\ AddressParts = {7, 9}
    /\ FieldText(8) = <<>>
    /\ outcome.record.address = <<71, 55, 44, 32, 73, 57>>

\* what the record holds for an optional field whose trimmed text is text
Optional(text) == IF text = <<>> THEN Undefined ELSE text

\* C12: pincode is present, equal to the text of field 11, exactly when that
\* text is not empty, and state likewise for field 13; pincode is absent
\* with 11 or fewer delimiters found and state with 13 or fewer.
C12_PincodeAndState ==
    (pc = "done" /\ outcome.kind = "record") =>
        LET k == Len(delimiterIndices)
            record == outcome.record
        IN  /\ k <= 11 => record.pincode = Undefined
            /\ k > 11 =>
                 record.pincode =
                     Optional(Trim(CharsBetween(delimiterIndices[11],
                                                delimiterIndices[12])))
            /\ k <= 13 => record.state = Undefined
            /\ k > 13 =>
                 record.state =
                     Optional(Trim(CharsBetween(delimiterIndices[13],
                                                delimiterIndices[14])))
            /\ (gen.layout # "blank" /\ gen.d >= 14 /\ k >= 14) =>
                 /\ record.pincode =
                       IF 11 \in Profiles[gen.profile].present
                       THEN <<75, 49>> ELSE Undefined
                 /\ record.state =
                       IF 13 \in Profiles[gen.profile].present
                       THEN <<77, 51>> ELSE Undefined

C12_Witness ==
    /\ pc = "done"
    /\ outcome.kind = "record"
    /\ Len(delimiterIndices) = 13
    /\ outcome.record.pincode = <<75, 49>>
    /\ outcome.record.state = Undefined
    /\ 13 \in Profiles[gen.profile].present

----------------------------------------------------------------------------
(* Onboarding: lib/onboarding.ts and OnboardingFlow.handleQRScan *)

MaxRuns == 2
HashLength == 12

\* localStorage.getItem's answer for a key without item
Null == "null"

\* localStorage.getItem(key), localStorage.setItem(key, value)
GetItem(store, key) == IF key \in DOMAIN store THEN store[key] ELSE Null
SetItem(store, key, value) ==
    [k \in DOMAIN store \cup {key} |-> IF k = key THEN value ELSE store[k]]

\* `solstice_linked_${aadhaarNumber}`, `solstice_onboarded_${walletAddress}`,
\* `solstice_onboarded_at_${walletAddress}`
LinkKey(aadhaarNumber) == <<"solstice_linked_", aadhaarNumber>>
OnboardedKey(walletAddress) == <<"solstice_onboarded_", walletAddress>>
OnboardedAtKey(walletAddress) == <<"solstice_onboarded_at_", walletAddress>>

\* a flag of any wallet counts
isAnyOnboardingComplete(store, walletAddress) ==
    \E key \in DOMAIN store : key[1] = "solstice_onboarded_" /\ store[key] = "true"

\* if (!walletAddress) return false; walletAddress is null or an address
isOnboardingComplete(store, walletAddress) ==
    IF walletAddress = "none" \/ walletAddress = "" THEN FALSE
    ELSE GetItem(store, OnboardedKey(walletAddress)) = "true"

\* localStorage.removeItem(key)
RemoveItem(store, key) == [k \in DOMAIN store \ {key} |-> store[k]]

clearOnboardingStatus(store, walletAddress) ==
    RemoveItem(store, OnboardedKey(walletAddress))

setOnboardingComplete(store, walletAddress) ==
    SetItem(store, OnboardedKey(walletAddress), "true")

linkAadhaarToWallet(store, aadhaarNumber, walletAddress) ==
    SetItem(store, LinkKey(aadhaarNumber), walletAddress)

getLinkedWallet(store, aadhaarNumber) == GetItem(store, LinkKey(aadhaarNumber))

\* !linkedWallet: null or the empty string
Falsy(value) == value = Null \/ value = ""

\* a check that lets every wallet pass
verifyWithoutLinkCheck(store, aadhaarNumber, currentWallet) ==
    [valid |-> TRUE, linkedWallet |-> Null, message |-> "No existing link found"]

verifyAadhaarWalletLink(store, aadhaarNumber, currentWallet) ==
    LET linkedWallet == getLinkedWallet(store, aadhaarNumber)
    IN  IF Falsy(linkedWallet)
        THEN [valid |-> TRUE, linkedWallet |-> Null,
              message |-> "No existing link found"]
        ELSE IF linkedWallet = currentWallet
        THEN [valid |-> TRUE, linkedWallet |-> linkedWallet,
              message |-> "already linked to your current wallet"]
        ELSE [valid |-> FALSE, linkedWallet |-> linkedWallet,
              message |-> "already linked to another wallet"]

\* new Date().toISOString() is kept as one opaque value
recordOnboardingCompletion(store, walletAddress) ==
    SetItem(setOnboardingComplete(store, walletAddress),
            OnboardedAtKey(walletAddress), "iso-time")

\* s.substring(0, n)
Prefix(s, n) == SubSeq(s, 1, Min(n, Len(s)))

\* wallet.publicKey of the tab in which a scan arrives: null or an address
NoWallet == "none"
Wallets == {"W1", "W2"}

\* a payload that decodes, and one on which decompression throws
GoodGen ==
    [inflates |-> TRUE, d |-> MaxDelimiters, layout |-> "v2", profile |-> 1,
     pad |-> <<SignatureLength, 0>>, thrown |-> NoThrow]
BadGen ==
    [inflates |-> FALSE, d |-> 0, layout |-> "blank", profile |-> 1,
     pad |-> <<0, 0>>, thrown |-> InflateError]

\* scanned strings: one that decodes, one with other first 12 characters on
\* which decompression throws, and one that is the first 12 characters of
\* the first alone, too short to be parsed
OnboardScans ==
    {[qrData |-> MakeQR(MinQRLength, 0, 0), gen |-> GoodGen],
     [qrData |-> MakeQR(MinQRLength, 1, 57), gen |-> BadGen],
     [qrData |-> MakeQR(HashLength, 0, 0), gen |-> GoodGen]}

\* Proof storage: storeProofs and getStoredProofs of lib/proofGenerator.ts

ProofTypes == {"age", "nationality", "uniqueness"}

\* 7 days in milliseconds
ExpiryMs == 7 * 24 * 60 * 60 * 1000

\* store.put(record) on an object store with keyPath 'type'
Put(db, record) ==
    [type \in DOMAIN db \cup {record.type} |->
        IF type = record.type THEN record ELSE db[type]]

\* the record storeProofs writes for one proof; publicSignals go with proof
StoredRecord(type, proof, walletAddress, timestamp) ==
    [type |-> type, status |-> "valid", generatedAt |-> timestamp,
     expiresAt |-> timestamp + ExpiryMs, proof |-> proof,
     walletAddress |-> walletAddress]

\* storeProofs(walletAddress, proofs) up to its return: the open request is
\* made and nothing is written yet; proofs maps the types given to the proofs
storeProofs(reqs, walletAddress, proofs) ==
    Append(reqs, [walletAddress |-> walletAddress, proofs |-> proofs,
                  state |-> "pending"])

\* request.onsuccess of storeProofs: one put per proof given
PutProofs(db, request, timestamp) ==
    LET PutIfGiven(d, type) ==
            IF type \in DOMAIN request.proofs
            THEN Put(d, StoredRecord(type, request.proofs[type],
                                     request.walletAddress, timestamp))
            ELSE d
    IN  PutIfGiven(PutIfGiven(PutIfGiven(db, "age"), "nationality"), "uniqueness")

\* a run of handleQRScan: the connected wallet, aadhaarHash, where the run
\* stands, what it set with setCurrentStep and setError, where it navigated,
\* the calls it made in order, what the awaited calls settled with, and the
\* position of its storeProofs request in requests (0: none)
StartedRun(w) ==
    [wallet |-> w, aadhaarHash |-> <<>>, pc |-> "ended", step |-> "processing",
     error |-> Null, navigated |-> "", invoked |-> <<>>, settled |-> <<>>,
     request |-> 0]

\* the catch block: setError(error.message || ...), setCurrentStep('scan-method')
Caught(run, message) ==
    [run EXCEPT !.pc = "ended", !.step = "scan-method",
                !.error = IF message = "" THEN "Failed to process QR code"
                          ELSE message]

Invoke(run, call) == [run EXCEPT !.invoked = Append(@, call)]
Settle(run, result) == [run EXCEPT !.settled = Append(@, result)]

\* proofsToStore of handleQRScan: generateAllProofs is called without config,
\* so no nationality proof is made
OnboardingProofs == [type \in {"age", "uniqueness"} |-> "onboarding"]

\* handleQRScan(scan.qrData) with wallet w connected, up to the first await
\* that suspends it: parseAadhaarQR returns a record, not a promise, so the
\* run goes on at once and calls generateAllProofs
HandleQRScanStart(w, scan) ==
    LET run == StartedRun(w)
        hash == Prefix(scan.qrData, HashLength)
        linkCheck == verifyAadhaarWalletLink(localStorage, hash, w)
        hashed == [run EXCEPT !.aadhaarHash = hash]
    IN  IF w = NoWallet
        THEN [run EXCEPT !.error = "Please connect your wallet first",
                         !.step = "wallet"]
        ELSE IF ~linkCheck.valid
        THEN [hashed EXCEPT !.error = linkCheck.message, !.step = "scan-method"]
        ELSE IF linkCheck.linkedWallet = w
        THEN [hashed EXCEPT !.navigated = "/status"]
        ELSE LET parsed == ParseAadhaarQR(scan.qrData, Inflate(scan.gen)).outcome
                 called == Invoke(hashed, "parseAadhaarQR")
             IN  IF parsed.kind = "error"
                 THEN Caught(called, parsed.error.message.text)
                 ELSE [Invoke(called, "generateAllProofs") EXCEPT !.pc = "proving"]

HandleQRScan(w, scan) ==
    /\ Len(runs) < MaxRuns
    /\ runs' = Append(runs, HandleQRScanStart(w, scan))
    /\ UNCHANGED <<localStorage, decoderVars, classifierVars, proofVars, uiVars>>

\* generateAllProofs resolves, with errors or without (it catches the
\* rejection of each proof); then storeProofs is called, which may throw;
\* it returns no promise, so the run goes on at once and calls
\* generateIdentityCommitment
AfterGenerateAllProofs(i, proofs, store) ==
    /\ runs[i].pc = "proving"
    /\ LET run == Settle(runs[i], proofs)
       IN  IF proofs = "errors"
           THEN /\ runs' = [runs EXCEPT ![i] = Caught(run, "Proof generation errors")]
                /\ requests' = requests
           ELSE IF store = "throws"
           THEN /\ runs' = [runs EXCEPT ![i] =
                               Caught(Invoke(run, "storeProofs"), "storing failed")]
                /\ requests' = requests
           ELSE /\ requests' = storeProofs(requests, run.wallet, OnboardingProofs)
                /\ runs' = [runs EXCEPT ![i] =
                               [Invoke(Invoke(run, "storeProofs"),
                                       "generateIdentityCommitment")
                                   EXCEPT !.pc = "committing",
                                          !.request = Len(requests) + 1]]
    /\ UNCHANGED <<localStorage, decoderVars, classifierVars, uiVars>>
    /\ UNCHANGED <<proofsDb, now, fetched>>

\* generateIdentityCommitment settles; resolved, registerIdentity is called
AfterGenerateIdentityCommitment(i, commitment) ==
    /\ runs[i].pc = "committing"
    /\ runs' = [runs EXCEPT ![i] =
                   IF commitment = "rejected"
                   THEN Caught(Settle(@, commitment), "commitment failed")
                   ELSE [Invoke(Settle(@, commitment), "registerIdentity")
                            EXCEPT !.pc = "registering"]]
    /\ UNCHANGED <<localStorage, decoderVars, classifierVars, proofVars, uiVars>>

\* registerIdentity resolves with true or false; it catches its own errors
AfterRegisterIdentity(i, success) ==
    /\ runs[i].pc = "registering"
    /\ IF success = "true"
       THEN /\ localStorage' =
                  linkAadhaarToWallet(
                      recordOnboardingCompletion(localStorage, runs[i].wallet),
                      runs[i].aadhaarHash, runs[i].wallet)
            /\ runs' = [runs EXCEPT ![i] =
                           [Settle(@, success) EXCEPT !.pc = "ended",
                                                      !.step = "complete"]]
       ELSE /\ localStorage' = localStorage
            /\ runs' = [runs EXCEPT ![i] =
                           Caught(Settle(@, success), "Failed to register identity")]
    /\ UNCHANGED <<decoderVars, classifierVars, proofVars, uiVars>>

\* request.onsuccess of a storeProofs request: the proofs are put
StoreProofsOnSuccess(j) ==
    /\ requests[j].state = "pending"
    /\ proofsDb' = PutProofs(proofsDb, requests[j], now)
    /\ requests' = [requests EXCEPT ![j].state = "stored"]
    /\ UNCHANGED <<now, fetched, decoderVars, classifierVars, onboardingVars, uiVars>>

\* request.onerror of a storeProofs request: logged, nothing is put
StoreProofsOnError(j) ==
    /\ requests[j].state = "pending"
    /\ requests' = [requests EXCEPT ![j].state = "failed"]
    /\ UNCHANGED <<proofsDb, now, fetched, decoderVars, classifierVars,
                   onboardingVars, uiVars>>

OnboardInit ==
    /\ DecoderIdle
    /\ ClassifierIdle
    /\ OnboardingIdle
    /\ ProofStoreIdle
    /\ UiIdle

OnboardNext ==
    \/ \E w \in Wallets \cup {NoWallet}, scan \in OnboardScans : HandleQRScan(w, scan)
    \/ \E i \in 1..Len(runs), proofs \in {"errors", "ok"},
          store \in {"throws", "returns"} : AfterGenerateAllProofs(i, proofs, store)
    \/ \E i \in 1..Len(runs), commitment \in {"rejected", "resolved"} :
          AfterGenerateIdentityCommitment(i, commitment)
    \/ \E i \in 1..Len(runs), success \in {"true", "false"} :
          AfterRegisterIdentity(i, success)
    \/ \E j \in 1..Len(requests) : StoreProofsOnSuccess(j)
    \/ \E j \in 1..Len(requests) : StoreProofsOnError(j)

OnboardSpec == OnboardInit /\ [][OnboardNext]_vars

----------------------------------------------------------------------------
(* Proof storage: storeProofs and getStoredProofs on their own *)

MaxStores == 2
MaxWeeks == 1

\* getStoredProofs() without an address
NoAddress == ""

\* the filter with the wallet test left out
getStoredProofsOfAnyWallet(db, walletAddress, time) ==
    LET valid == {type \in DOMAIN db :
                     db[type].expiresAt = 0 \/ db[type].expiresAt > time}
    IN  [type \in valid |-> db[type].proof]

\* what getStoredProofs(walletAddress) resolves with when getAll succeeds at
\* the given time: the records that match the wallet and are not expired,
\* by type
getStoredProofs(db, walletAddress, time) ==
    LET matchesWallet(p) == walletAddress = NoAddress \/ p.walletAddress = walletAddress
        notExpired(p) == p.expiresAt = 0 \/ p.expiresAt > time
        validProofs == {type \in DOMAIN db :
                           matchesWallet(db[type]) /\ notExpired(db[type])}
    IN  [type \in validProofs |-> db[type].proof]

\* the proofs handed to storeProofs: those of handleQRScan (no nationality
\* proof) and those of handleRegister; a proof is named after the call that
\* stores it
ProofSets == {{"age", "uniqueness"}, ProofTypes}

\* the instants at which something happens: around each expiry
Instants ==
    {week * ExpiryMs + offset : week \in 0..MaxWeeks, offset \in {0, 1}}
        \cup {week * ExpiryMs - 1 : week \in 1..MaxWeeks}

\* a caller stores proofs for wallet w
StoreProofs(w, types) ==
    /\ Len(requests) < MaxStores
    /\ requests' = storeProofs(requests, w, [type \in types |-> Len(requests) + 1])
    /\ UNCHANGED <<proofsDb, now, fetched, decoderVars, classifierVars,
                   onboardingVars, uiVars>>

\* time passes
Tick(instant) ==
    /\ instant > now
    /\ now' = instant
    /\ UNCHANGED <<proofsDb, requests, fetched, decoderVars, classifierVars,
                   onboardingVars, uiVars>>

\* getStoredProofs(walletAddress) resolves from getAllRequest.onsuccess
GetStoredProofs(walletAddress) ==
    /\ fetched.kind = "none"
    /\ fetched' = [kind |-> "resolved", walletAddress |-> walletAddress,
                   proofs |-> getStoredProofs(proofsDb, walletAddress, now)]
    /\ UNCHANGED <<proofsDb, requests, now, decoderVars, classifierVars,
                   onboardingVars, uiVars>>

\* getStoredProofs resolves from request.onerror or getAllRequest.onerror
GetStoredProofsOnError(walletAddress) ==
    /\ fetched.kind = "none"
    /\ fetched' = [kind |-> "resolved", walletAddress |-> walletAddress,
                   proofs |-> EmptyDb]
    /\ UNCHANGED <<proofsDb, requests, now, decoderVars, classifierVars,
                   onboardingVars, uiVars>>

\* the caller is done with the result
DropStoredProofs ==
    /\ fetched.kind = "resolved"
    /\ fetched' = [kind |-> "none"]
    /\ UNCHANGED <<proofsDb, requests, now, decoderVars, classifierVars,
                   onboardingVars, uiVars>>

ProofStoreInit ==
    /\ DecoderIdle
    /\ ClassifierIdle
    /\ OnboardingIdle
    /\ ProofStoreIdle
    /\ UiIdle

ProofStoreNext ==
    \/ \E w \in Wallets, types \in ProofSets : StoreProofs(w, types)
    \/ \E j \in 1..Len(requests) : StoreProofsOnSuccess(j)
    \/ \E j \in 1..Len(requests) : StoreProofsOnError(j)
    \/ \E instant \in Instants : Tick(instant)
    \/ \E w \in Wallets \cup {NoAddress} : GetStoredProofs(w)
    \/ \E w \in Wallets \cup {NoAddress} : GetStoredProofsOnError(w)
    \/ DropStoredProofs

ProofStoreSpec == ProofStoreInit /\ [][ProofStoreNext]_vars

----------------------------------------------------------------------------
(* ProtectedRoute *)

\* what ProtectedRoute returns for useWallet() = {publicKey, connected}
ProtectedRoute(store, publicKey, connected) ==
    IF ~connected \/ publicKey = NoWallet
    THEN [kind |-> "rendered", publicKey |-> publicKey, connected |-> connected,
          shows |-> "Navigate", to |-> "/onboarding"]
    ELSE IF ~isOnboardingComplete(store, publicKey)
    THEN [kind |-> "rendered", publicKey |-> publicKey, connected |-> connected,
          shows |-> "Navigate", to |-> "/onboarding"]
    ELSE [kind |-> "rendered", publicKey |-> publicKey, connected |-> connected,
          shows |-> "children", to |-> ""]

\* React renders the route with the wallet state of the moment
Render(publicKey, connected) ==
    /\ route.kind = "none"
    /\ route' = ProtectedRoute(localStorage, publicKey, connected)
    /\ UNCHANGED <<scanner, provider, decoderVars, classifierVars,
                   onboardingVars, proofVars>>

\* the route is left
Unmount ==
    /\ route.kind = "rendered"
    /\ route' = [kind |-> "none"]
    /\ UNCHANGED <<scanner, provider, decoderVars, classifierVars,
                   onboardingVars, proofVars>>

\* an onboarding run of wallet w completes: recordOnboardingCompletion
RecordOnboardingCompletion(w) ==
    /\ localStorage' = recordOnboardingCompletion(localStorage, w)
    /\ UNCHANGED <<runs, decoderVars, classifierVars, proofVars, uiVars>>

\* clearOnboardingStatus(w), the reset for testing
ClearOnboardingStatus(w) ==
    /\ localStorage' = clearOnboardingStatus(localStorage, w)
    /\ UNCHANGED <<runs, decoderVars, classifierVars, proofVars, uiVars>>

\* the wallets a browser profile has seen
RouteWallets == Wallets \cup {"W3"}

RouteInit ==
    /\ DecoderIdle
    /\ ClassifierIdle
    /\ OnboardingIdle
    /\ ProofStoreIdle
    /\ UiIdle

RouteNext ==
    \/ \E publicKey \in RouteWallets \cup {NoWallet}, connected \in BOOLEAN :
          Render(publicKey, connected)
    \/ Unmount
    \/ \E w \in RouteWallets : RecordOnboardingCompletion(w)
    \/ \E w \in RouteWallets : ClearOnboardingStatus(w)

RouteSpec == RouteInit /\ [][RouteNext]_vars

----------------------------------------------------------------------------
(* QRScanner: handleQRData, handleRegister, resetFlow *)

MaxHandlers == 2

\* s.split(separator) for a one-character separator
RECURSIVE SplitAt(_, _, _, _)
SplitAt(s, separator, i, cur) ==
    IF i > Len(s) THEN <<cur>>
    ELSE IF s[i] = separator THEN <<cur>> \o SplitAt(s, separator, i + 1, <<>>)
    ELSE SplitAt(s, separator, i + 1, Append(cur, s[i]))

\* BigInt('0x' + text) accepts hexadecimal digits, at least one
IsHex(text) ==
    /\ text # <<>>
    /\ \A i \in 1..Len(text) : text[i] \in (48..57) \cup (65..70) \cup (97..102)

\* the preparation of the proof inputs in handleRegister throws: month is
\* undefined when dateOfBirth has no '/', and BigInt rejects a commitment
\* whose first 16 characters are not hexadecimal
PreparationThrows(data, commitment) ==
    \/ Len(SplitAt(data.dateOfBirth, Slash, 1, <<>>)) < 2
    \/ ~IsHex(Prefix(commitment, 16))

\* what the camera or the uploaded image hands to handleQRData: an XML
\* payload, a short digit string, two strings that decode (the date of birth
\* written with and without dashes), one that does not
ScannerScans ==
    [name \in {"physical", "short", "dashed", "plain", "corrupt"} |->
        CASE name = "physical" ->
                 [qrData |-> XmlMarker \o Digits(MadhaarMinLength), gen |-> BadGen]
          [] name = "short" -> [qrData |-> Digits(HashLength), gen |-> BadGen]
          [] name = "dashed" ->
                 [qrData |-> MakeQR(MinQRLength, 0, 0), gen |-> GoodGen]
          [] name = "plain" ->
                 [qrData |-> MakeQR(MinQRLength, 1, 57), gen |-> [GoodGen EXCEPT !.profile = 2]]
          [] OTHER -> [qrData |-> MakeQR(MinQRLength, 2, 57), gen |-> BadGen]]

\* what parseQRCode settles with: the backend's answer or a rejection
BackendAnswers ==
    {[kind |-> "resolved", success |-> TRUE, commitment |-> <<97, 49, 98, 50>>],
     [kind |-> "resolved", success |-> TRUE, commitment |-> <<122, 122>>],
     [kind |-> "resolved", success |-> FALSE, commitment |-> <<>>],
     [kind |-> "rejected", success |-> FALSE, commitment |-> <<>>]}

\* a handler run: which handler, on which scan, with which wallet, where it
\* stands, the calls it made, what they settled with, the alerts it raised,
\* and the commitment and parsedData of the render it was created in
StartedHandler(kind, name, w) ==
    [kind |-> kind, scan |-> name, wallet |-> w, pc |-> "ended",
     invoked |-> <<>>, settled |-> <<>>, alerts |-> <<>>,
     commitment |-> scanner.commitment, parsedData |-> scanner.parsedData]

\* identityData of handleQRData
IdentityData(record) ==
    [kind |-> "data", name |-> record.name, dateOfBirth |-> record.dateOfBirth,
     gender |-> record.gender, address |-> record.address,
     aadhaarLast4Digits |-> record.aadhaarLast4Digits]

\* handleQRData without the isMadhaarQR check
HandleQRDataUnclassified(name) ==
    LET data == ScannerScans[name]
        handler == StartedHandler("handleQRData", name, NoWallet)
        alerted(h, text) == [h EXCEPT !.alerts = Append(@, text)]
    IN  IF IsPhysicalCardQR(data.qrData)
        THEN [scanner EXCEPT !.handlers = Append(@, alerted(handler, "physical card"))]
        ELSE LET parsed == ParseAadhaarQR(data.qrData, Inflate(data.gen)).outcome
                 called == Invoke(handler, "parseAadhaarQR")
             IN  IF parsed.kind = "error"
                 THEN [scanner EXCEPT
                          !.handlers = Append(@, alerted(called, "failed to parse"))]
                 ELSE [scanner EXCEPT
                          !.parsedData = IdentityData(parsed.record),
                          !.handlers =
                              Append(@, [Invoke(called, "parseQRCode")
                                            EXCEPT !.pc = "parsing"])]

\* handleQRData(data) up to `await parseQRCode(data)`
HandleQRDataStart(name) ==
    LET data == ScannerScans[name]
        handler == StartedHandler("handleQRData", name, NoWallet)
        alerted(h, text) == [h EXCEPT !.alerts = Append(@, text)]
    IN  IF IsPhysicalCardQR(data.qrData)
        THEN [scanner EXCEPT !.handlers = Append(@, alerted(handler, "physical card"))]
        ELSE IF ~IsMadhaarQR(data.qrData)
        THEN [scanner EXCEPT !.handlers = Append(@, alerted(handler, "invalid format"))]
        ELSE LET parsed == ParseAadhaarQR(data.qrData, Inflate(data.gen)).outcome
                 called == Invoke(handler, "parseAadhaarQR")
             IN  IF parsed.kind = "error"
                 THEN [scanner EXCEPT
                          !.handlers = Append(@, alerted(called, "failed to parse"))]
                 ELSE [scanner EXCEPT
                          !.parsedData = IdentityData(parsed.record),
                          !.handlers =
                              Append(@, [Invoke(called, "parseQRCode")
                                            EXCEPT !.pc = "parsing"])]

HandleQRData(name) ==
    /\ Len(scanner.handlers) < MaxHandlers
    /\ scanner' = HandleQRDataStart(name)
    /\ UNCHANGED <<route, provider, decoderVars, classifierVars, onboardingVars,
                   proofVars>>

\* parseQRCode settles
AfterParseQRCode(h, answer) ==
    /\ scanner.handlers[h].pc = "parsing"
    /\ LET handler == [Settle(scanner.handlers[h], answer.kind) EXCEPT !.pc = "ended"]
       IN  scanner' =
             IF answer.kind = "rejected"
             THEN [scanner EXCEPT
                      !.handlers[h] = [handler EXCEPT !.alerts = Append(@, "failed")]]
             ELSE IF answer.success
             THEN [scanner EXCEPT !.commitment = answer.commitment,
                                  !.step = "parsed",
                                  !.handlers[h] = Settle(handler, "success")]
             ELSE [scanner EXCEPT !.handlers[h] = handler]
    /\ UNCHANGED <<route, provider, decoderVars, classifierVars, onboardingVars,
                   proofVars>>

\* handleRegister() with wallet w connected, up to `await registerIdentity`;
\* !commitment is true for null and for the empty string
HandleRegister(w) ==
    /\ Len(scanner.handlers) < MaxHandlers
    /\ LET handler == StartedHandler("handleRegister", "", w)
       IN  scanner' =
             IF scanner.commitment = NoCommitment \/ scanner.commitment = <<>>
                \/ w = NoWallet
             THEN [scanner EXCEPT !.handlers = Append(@, handler)]
             ELSE [scanner EXCEPT
                      !.handlers = Append(@, [Invoke(handler, "registerIdentity")
                                                 EXCEPT !.pc = "registering"])]
    /\ UNCHANGED <<route, provider, decoderVars, classifierVars, onboardingVars,
                   proofVars>>

\* registerIdentity settles with true or false; on true the proofs are
\* prepared from the handler's parsedData and generateAllProofs is called
AfterRegister(h, success) ==
    /\ scanner.handlers[h].pc = "registering"
    /\ LET handler == Settle(scanner.handlers[h], success)
       IN  scanner' =
             IF success = "false"
             THEN [scanner EXCEPT !.handlers[h] = [handler EXCEPT !.pc = "ended"]]
             ELSE IF handler.parsedData = NoData
             THEN [scanner EXCEPT !.step = "registered",
                                  !.handlers[h] = [handler EXCEPT !.pc = "ended"]]
             ELSE IF PreparationThrows(handler.parsedData, handler.commitment)
             THEN [scanner EXCEPT !.step = "registered",
                                  !.generatingProofs = FALSE,
                                  !.handlers[h] = [handler EXCEPT !.pc = "ended"]]
             ELSE [scanner EXCEPT !.step = "registered",
                                  !.generatingProofs = TRUE,
                                  !.handlers[h] =
                                      [Invoke(handler, "generateAllProofs")
                                          EXCEPT !.pc = "proving"]]
    /\ UNCHANGED <<route, provider, decoderVars, classifierVars, onboardingVars,
                   proofVars>>

\* generateAllProofs resolves, all proofs made or the nationality proof
\* missing; storeProofs is called, which may throw; parsedData is cleared
\* behind it; finally generatingProofs is reset
AfterProofs(h, proofs, store) ==
    /\ scanner.handlers[h].pc = "proving"
    /\ LET handler == [Invoke(Settle(scanner.handlers[h], proofs), "storeProofs")
                          EXCEPT !.pc = "ended"]
           made == IF proofs = "ok" THEN ProofTypes ELSE {"age", "uniqueness"}
       IN  IF store = "throws"
           THEN /\ scanner' = [scanner EXCEPT !.generatingProofs = FALSE,
                                              !.handlers[h] = handler]
                /\ requests' = requests
           ELSE /\ scanner' = [scanner EXCEPT !.parsedData = NoData,
                                              !.generatingProofs = FALSE,
                                              !.handlers[h] = handler]
                /\ requests' = storeProofs(requests, handler.wallet,
                                           [type \in made |-> Len(requests) + 1])
    /\ UNCHANGED <<route, provider, decoderVars, classifierVars, onboardingVars,
                   proofsDb, now, fetched>>

\* resetFlow()
ResetFlow ==
    /\ scanner' = [scanner EXCEPT !.commitment = NoCommitment, !.step = "scan"]
    /\ UNCHANGED <<route, provider, decoderVars, classifierVars, onboardingVars,
                   proofVars>>

ScannerInit ==
    /\ DecoderIdle
    /\ ClassifierIdle
    /\ OnboardingIdle
    /\ ProofStoreIdle
    /\ UiIdle

ScannerNext ==
    \/ \E name \in DOMAIN ScannerScans : HandleQRData(name)
    \/ \E h \in 1..Len(scanner.handlers), answer \in BackendAnswers :
          AfterParseQRCode(h, answer)
    \/ \E w \in Wallets \cup {NoWallet} : HandleRegister(w)
    \/ \E h \in 1..Len(scanner.handlers), success \in {"true", "false"} :
          AfterRegister(h, success)
    \/ \E h \in 1..Len(scanner.handlers), proofs \in {"ok", "errors"},
          store \in {"throws", "returns"} : AfterProofs(h, proofs, store)
    \/ ResetFlow
    \/ \E j \in 1..Len(requests) : StoreProofsOnSuccess(j)
    \/ \E j \in 1..Len(requests) : StoreProofsOnError(j)

ScannerSpec == ScannerInit /\ [][ScannerNext]_vars

----------------------------------------------------------------------------
(* SolsticeProvider: registerIdentity and verifyIdentity *)

MaxCalls == 2

\* lib/anchor registerIdentity: what the on-chain call gives for an identity
\* account that is absent, holds other data or holds the same data, with the
\* account's transaction history kept or not by the RPC node
registerIdentityOnChain(account, history, rpc) ==
    IF rpc = "throws" THEN "throws"
    ELSE IF account = "unchanged"
    THEN IF history = "kept" THEN "last signature" ELSE "IDENTITY_UNCHANGED"
    ELSE "signature"

\* strings that are the signature of a transaction
Signatures == {"signature", "last signature"}

\* a call of the provider: which function, the wallet of its render, where
\* it stands, the calls it made in order, the txSignature it holds, and what
\* it returned
StartedCall(kind, w) ==
    [kind |-> kind, wallet |-> w, pc |-> "ended", invoked |-> <<>>,
     txSignature |-> "", returned |-> "pending"]

\* `return value` inside try/catch/finally: finally sets loading to false
Return(p, c, value, error) ==
    [p EXCEPT !.loading = FALSE, !.error = error,
              !.calls[c] = [@ EXCEPT !.pc = "ended", !.returned = value]]

\* the call goes on to await the next request
Await(p, c, call, at) ==
    [p EXCEPT !.calls[c] = [Invoke(@, call) EXCEPT !.pc = at]]

\* registerIdentity(commitment, merkleRoot) up to the on-chain call
RegisterIdentity(w, signTransaction) ==
    /\ Len(provider.calls) < MaxCalls
    /\ LET call == StartedCall("registerIdentity", w)
           c == Len(provider.calls) + 1
       IN  provider' =
             IF w = NoWallet \/ ~signTransaction
             THEN [provider EXCEPT
                      !.error = "Wallet not connected",
                      !.calls = Append(@, [call EXCEPT !.returned = "false"])]
             ELSE Await([provider EXCEPT !.loading = TRUE, !.error = NoError,
                                         !.calls = Append(@, call)],
                        c, "registerIdentityOnChain", "on-chain")
    /\ UNCHANGED <<route, scanner, decoderVars, classifierVars, onboardingVars,
                   proofVars>>

\* the on-chain call settles; with a txSignature the registration is posted
AfterRegisterIdentityOnChain(c, account, history, rpc) ==
    /\ provider.calls[c].kind = "registerIdentity"
    /\ provider.calls[c].pc = "on-chain"
    /\ LET txSignature == registerIdentityOnChain(account, history, rpc)
       IN  provider' =
             IF txSignature = "throws"
             THEN Return(provider, c, "false", "Failed to register identity")
             ELSE Await([provider EXCEPT !.calls[c].txSignature = txSignature],
                        c, "post /identity/register", "posting")
    /\ UNCHANGED <<route, scanner, decoderVars, classifierVars, onboardingVars,
                   proofVars>>

\* the backend answers the registration; fetchIdentity never rejects
AfterPostRegister(c, response) ==
    /\ provider.calls[c].kind = "registerIdentity"
    /\ provider.calls[c].pc = "posting"
    /\ provider' =
         CASE response = "throws" ->
                  Return(provider, c, "false", "Failed to register identity")
           [] response = "success" ->
                  Return(Await(provider, c, "fetchIdentity", "fetching"),
                         c, "true", provider.error)
           [] OTHER -> Return(provider, c, "false", provider.error)
    /\ UNCHANGED <<route, scanner, decoderVars, classifierVars, onboardingVars,
                   proofVars>>

\* verifyIdentity(proof, publicSignals, attributeType) up to the off-chain
\* verification
VerifyIdentity(w) ==
    /\ Len(provider.calls) < MaxCalls
    /\ LET call == StartedCall("verifyIdentity", w)
           c == Len(provider.calls) + 1
       IN  provider' =
             IF w = NoWallet
             THEN [provider EXCEPT
                      !.error = "Wallet not connected",
                      !.calls = Append(@, [call EXCEPT !.returned = "false"])]
             ELSE Await([provider EXCEPT !.loading = TRUE, !.error = NoError,
                                         !.calls = Append(@, call)],
                        c, "post /proof/verify", "verifying")
    /\ UNCHANGED <<route, scanner, decoderVars, classifierVars, onboardingVars,
                   proofVars>>

\* the off-chain verification answers; only isValid leads to the chain
AfterPostVerify(c, response) ==
    /\ provider.calls[c].pc = "verifying"
    /\ provider' =
         CASE response = "throws" ->
                  Return(provider, c, "false", "Failed to verify identity")
           [] response = "isValid" ->
                  Await(provider, c, "verifyIdentityOnChain", "on-chain")
           [] OTHER -> Return(provider, c, "false", "Invalid proof")
    /\ UNCHANGED <<route, scanner, decoderVars, classifierVars, onboardingVars,
                   proofVars>>

\* the on-chain verification settles; with a txSignature it is submitted
AfterVerifyIdentityOnChain(c, rpc) ==
    /\ provider.calls[c].kind = "verifyIdentity"
    /\ provider.calls[c].pc = "on-chain"
    /\ provider' =
         IF rpc = "throws"
         THEN Return(provider, c, "false", "Failed to verify identity")
         ELSE Await([provider EXCEPT !.calls[c].txSignature = "signature"],
                    c, "post /proof/submit", "submitting")
    /\ UNCHANGED <<route, scanner, decoderVars, classifierVars, onboardingVars,
                   proofVars>>

\* the backend answers the submission
AfterPostSubmit(c, response) ==
    /\ provider.calls[c].pc = "submitting"
    /\ provider' =
         CASE response = "throws" ->
                  Return(provider, c, "false", "Failed to verify identity")
           [] response = "success" ->
                  Return(Await(provider, c, "fetchIdentity", "fetching"),
                         c, "true", provider.error)
           [] OTHER -> Return(provider, c, "false", provider.error)
    /\ UNCHANGED <<route, scanner, decoderVars, classifierVars, onboardingVars,
                   proofVars>>

ProviderInit ==
    /\ DecoderIdle
    /\ ClassifierIdle
    /\ OnboardingIdle
    /\ ProofStoreIdle
    /\ UiIdle

ProviderNext ==
    \/ \E w \in Wallets \cup {NoWallet}, signTransaction \in BOOLEAN :
          RegisterIdentity(w, signTransaction)
    \/ \E c \in 1..Len(provider.calls), account \in {"absent", "changed", "unchanged"},
          history \in {"kept", "empty"}, rpc \in {"throws", "ok"} :
          AfterRegisterIdentityOnChain(c, account, history, rpc)
    \/ \E c \in 1..Len(provider.calls), response \in {"throws", "success", "not success"} :
          AfterPostRegister(c, response)
    \/ \E w \in Wallets \cup {NoWallet} : VerifyIdentity(w)
    \/ \E c \in 1..Len(provider.calls), response \in {"throws", "isValid", "not valid"} :
          AfterPostVerify(c, response)
    \/ \E c \in 1..Len(provider.calls), rpc \in {"throws", "ok"} :
          AfterVerifyIdentityOnChain(c, rpc)
    \/ \E c \in 1..Len(provider.calls), response \in {"throws", "success", "not success"} :
          AfterPostSubmit(c, response)

ProviderSpec == ProviderInit /\ [][ProviderNext]_vars

----------------------------------------------------------------------------
(* Failure signals, atomicity and effects of parseAadhaarQR *)

\* what a caller can test of an error without reading its cause text: the
\* constructor name and the fixed wrapper in front of the message
ErrorKind(error) == <<error.name, error.message.prefix>>

\* the errors raised for structural problems
StructuralErrors ==
    {InvalidFormatError, TooShortError}
        \cup {FailedToParse(InsufficientDelimitersError(n)) :
                 n \in 0..(MinDelimiters - 1)}

\* the call ended and the decompression primitive threw in it
InflateThrew == pc = "done" /\ calls # <<>> /\ ~decoded.ok

RequiredFields ==
    {"name", "dateOfBirth", "gender", "address", "aadhaarLast4Digits"}

\* C17: every finished call has exactly one of two outcomes: a record with
\* name, dateOfBirth, gender, address and aadhaarLast4Digits all set and no
\* error, or an error and no record, not even a partial one.
C17_RecordOrError ==
    pc = "done" =>
        \/ /\ outcome.kind = "record"
           /\ DOMAIN outcome = {"kind", "record"}
           /\ RequiredFields \subseteq DOMAIN outcome.record
           /\ \A f \in RequiredFields : outcome.record[f] # Undefined
        \/ /\ outcome.kind = "error"
           /\ DOMAIN outcome = {"kind", "error"}

\* a failure after the signed region was scanned: no record comes out
C17_Witness ==
    /\ pc = "done"
    /\ outcome.kind = "error"
    /\ signedData # <<>>
    /\ Len(delimiterIndices) \in 1..(MinDelimiters - 1)
    /\ DOMAIN outcome = {"kind", "error"}

\* the step in which a call of parseAadhaarQR runs
CallRuns == pc = "ready" /\ pc' = "done"

LogEntries(n) == [i \in 1..n |-> "log"]

----------------------------------------------------------------------------
(* Properties of the classifiers, checked under ClassifySpec *)

Classified == verdict.kind = "classified"

\* C13: isMadhaarQR answers true exactly for the strings made only of the
\* decimal digits 0-9 whose length is at least 100; 99 digits give false and
\* 100 digits give true.
C13_IsMadhaarQR ==
    Classified =>
        /\ verdict.mAadhaar =
              (/\ Len(scanned) >= 100
               /\ \A i \in 1..Len(scanned) : scanned[i] \in 48..57)
        /\ (scanned = Digits(99)) => ~verdict.mAadhaar
        /\ (scanned = Digits(100)) => verdict.mAadhaar

C13_Witness ==
    /\ Classified
    /\ scanned = Digits(100)
    /\ verdict.mAadhaar

C13_Witness99 ==
    /\ Classified
    /\ scanned = Digits(99)
    /\ ~verdict.mAadhaar

\* the string holds the marker at 0-based offset k
OccursAt(marker, k) ==
    /\ k + Len(marker) <= Len(scanned)
    /\ \A j \in 1..Len(marker) : scanned[k + j] = marker[j]

\* C14: isPhysicalCardQR answers true exactly for the strings that hold
\* '<?xml', '<PrintLetterBarcodeData' or '<UidData' at some position,
\* whatever surrounds it.
C14_IsPhysicalCardQR ==
    Classified =>
        verdict.physical =
            (\E marker \in {XmlMarker, PrintLetterMarker, UidDataMarker} :
                \E k \in 0..Len(scanned) : OccursAt(marker, k))

\* a marker in the middle of a long string, digits before and after it
C14_Witness ==
    /\ Classified
    /\ verdict.physical
    /\ OccursAt(UidDataMarker, 99)
    /\ Len(scanned) > 200

\* C15: no string is both an mAadhaar payload and a physical-card payload,
\* and the string is treated as unrecognized exactly when both classifiers
\* answer false.
C15_ShapesExclusive ==
    Classified =>
        /\ ~(verdict.mAadhaar /\ verdict.physical)
        /\ (verdict.shape = "unrecognized") =
              (~verdict.mAadhaar /\ ~verdict.physical)
        /\ (verdict.shape = "mAadhaar") = verdict.mAadhaar
        /\ (verdict.shape = "physical") = verdict.physical

\* a long string that is neither: digits around a near miss of a marker
C15_Witness ==
    /\ Classified
    /\ verdict.shape = "unrecognized"
    /\ Len(scanned) >= 100
    /\ \E i \in 1..Len(scanned) : scanned[i] = 60

----------------------------------------------------------------------------
(* Properties of onboarding, checked under OnboardSpec *)

LinkKeys == {key \in DOMAIN localStorage : key[1] = "solstice_linked_"}

\* C20: once an Aadhaar key is linked to a wallet, no step of any onboarding
\* run, started later or running concurrently, changes or removes the stored
\* link.
C20_LinkIsPermanent ==
    [][\A key \in LinkKeys :
          /\ key \in DOMAIN localStorage'
          /\ localStorage'[key] = localStorage[key]]_vars

\* the Aadhaar key is linked to a wallet other than w
LinkedToOtherWallet(store, aadhaarHash, w) ==
    /\ LinkKey(aadhaarHash) \in DOMAIN store
    /\ store[LinkKey(aadhaarHash)] # w

\* C21: a handleQRScan run whose Aadhaar key is already linked to a wallet
\* other than the connected one (exactly the case in which
\* verifyAadhaarWalletLink answers valid = false) stops there: it invokes
\* none of parseAadhaarQR, generateAllProofs, storeProofs and
\* registerIdentity, writes nothing, and ends at step 'scan-method' with an
\* error set; an ended run never acts again.
C21_LinkedElsewhereStops ==
    [][/\ \A i \in 1..Len(runs) : runs[i].pc = "ended" => runs'[i] = runs[i]
       /\ Len(runs') = Len(runs) + 1 /\ runs'[Len(runs')].wallet # NoWallet =>
             LET run == runs'[Len(runs')]
                 elsewhere == LinkedToOtherWallet(localStorage, run.aadhaarHash,
                                                  run.wallet)
             IN  /\ elsewhere =
                       ~verifyAadhaarWalletLink(localStorage, run.aadhaarHash,
                                                run.wallet).valid
                 /\ elsewhere =>
                       /\ run.invoked = <<>>
                       /\ run.pc = "ended"
                       /\ run.step = "scan-method"
                       /\ run.error # Null
                       /\ localStorage' = localStorage
                       /\ requests' = requests
                       /\ proofsDb' = proofsDb]_vars

\* a run of wallet W2 stopped on a key that a completed run linked to W1
C21_Witness ==
    \E i, k \in 1..Len(runs) :
        /\ runs[i].step = "complete"
        /\ runs[k].wallet # NoWallet
        /\ runs[k].aadhaarHash = runs[i].aadhaarHash
        /\ LinkedToOtherWallet(localStorage, runs[k].aadhaarHash, runs[k].wallet)
        /\ runs[k].error = "already linked to another wallet"
        /\ runs[k].invoked = <<>>

\* the run is over and failed behind the link check
FailedRun(run) ==
    run.pc = "ended" /\ run.invoked # <<>> /\ run.step # "complete"

\* C22: a run is at step 'complete', and a flag or link is in localStorage,
\* only after registerIdentity returned true in that run, which is only after
\* the proofs were generated without error and stored; a failed run is at
\* step 'scan-method' with an error and has written no flag and no link.
C22_CompleteOnlyAfterProvedAndStored ==
    /\ \A i \in 1..Len(runs) :
          /\ runs[i].step = "complete" =>
                /\ runs[i].settled = <<"ok", "resolved", "true">>
                /\ runs[i].request \in 1..Len(requests)
                /\ requests[runs[i].request].state = "stored"
                /\ \A type \in DOMAIN requests[runs[i].request].proofs :
                      type \in DOMAIN proofsDb
          /\ FailedRun(runs[i]) =>
                runs[i].step = "scan-method" /\ runs[i].error # Null
    /\ \A key \in DOMAIN localStorage :
          \E i \in 1..Len(runs) :
              /\ runs[i].step = "complete"
              /\ key \in {LinkKey(runs[i].aadhaarHash), OnboardedKey(runs[i].wallet),
                          OnboardedAtKey(runs[i].wallet)}

----------------------------------------------------------------------------
(* Properties of ProtectedRoute, checked under RouteSpec *)

\* C23: ProtectedRoute shows its children only when a wallet is connected
\* and the onboarding flag of that wallet's address is 'true'; with no
\* wallet, or with the flag absent or cleared for this wallet, it redirects
\* to /onboarding, whatever the flags of other wallets are.
C23_ProtectedRoute ==
    [][route'.kind = "rendered" /\ route.kind = "none" =>
          LET flagged ==
                  /\ OnboardedKey(route'.publicKey) \in DOMAIN localStorage
                  /\ localStorage[OnboardedKey(route'.publicKey)] = "true"
              allowed ==
                  route'.connected /\ route'.publicKey # NoWallet /\ flagged
          IN  /\ (route'.shows = "children") = allowed
              /\ ~allowed => route'.shows = "Navigate" /\ route'.to = "/onboarding"]_vars

\* W2 is connected and redirected while the flag of W1 is set
C23_Witness ==
    /\ route.kind = "rendered"
    /\ route.publicKey = "W2"
    /\ route.connected
    /\ route.shows = "Navigate"
    /\ GetItem(localStorage, OnboardedKey("W1")) = "true"
    /\ GetItem(localStorage, OnboardedKey("W2")) = Null
    /\ GetItem(localStorage, OnboardedAtKey("W2")) # Null

----------------------------------------------------------------------------
(* Properties of proof storage, checked under ProofStoreSpec *)

\* getStoredProofs has just resolved with the records it read
Fetching == fetched.kind = "none" /\ fetched'.kind = "resolved"

\* C24: getStoredProofs(wallet) returns a proof of a type only if the stored
\* record of that type was written by a storeProofs call for that same wallet
\* and its expiry, 7 days after it was written, lies after now; a record of
\* another wallet or an expired one is never returned.
C24_OnlyOwnUnexpiredProofs ==
    [][Fetching /\ fetched'.walletAddress \in Wallets =>
          \A type \in DOMAIN fetched'.proofs :
              /\ type \in DOMAIN proofsDb
              /\ proofsDb[type].walletAddress = fetched'.walletAddress
              /\ proofsDb[type].expiresAt > now
              /\ proofsDb[type].expiresAt = proofsDb[type].generatedAt + 604800000
              /\ fetched'.proofs[type] = proofsDb[type].proof
              /\ \E j \in 1..Len(requests) :
                    /\ requests[j].state = "stored"
                    /\ requests[j].walletAddress = fetched'.walletAddress
                    /\ type \in DOMAIN requests[j].proofs
                    /\ requests[j].proofs[type] = fetched'.proofs[type]]_vars

\* W1 is handed its unexpired nationality proof while the store also holds
\* records of W2
C24_Witness ==
    /\ fetched.kind = "resolved"
    /\ fetched.walletAddress = "W1"
    /\ DOMAIN fetched.proofs = {"nationality"}
    /\ DOMAIN proofsDb = ProofTypes
    /\ proofsDb["age"].walletAddress = "W2"
    /\ proofsDb["nationality"].expiresAt = now + 1

\* an expired record of the asking wallet is left out
C24_WitnessExpired ==
    /\ fetched.kind = "resolved"
    /\ fetched.walletAddress = "W1"
    /\ fetched.proofs = EmptyDb
    /\ \E type \in DOMAIN proofsDb :
          /\ proofsDb[type].walletAddress = "W1"
          /\ proofsDb[type].expiresAt = now

\* C25: the puts of a storeProofs call for one wallet leave what
\* getStoredProofs returns for every other wallet unchanged.
C25_StoreLeavesOtherWallets ==
    [][\A j \in 1..Len(requests) :
          requests[j].state = "pending" /\ requests'[j].state = "stored" =>
              \A w \in Wallets \ {requests[j].walletAddress} :
                  getStoredProofs(proofsDb', w, now) = getStoredProofs(proofsDb, w, now)]_vars

\* handler h of the scanner ends in this step, after registerIdentity
\* returned true to it and with parsed data to make proofs from
GenerationFinishes(h) ==
    /\ scanner.handlers[h].kind = "handleRegister"
    /\ scanner.handlers[h].parsedData # NoData
    /\ scanner.handlers[h].pc # "ended"
    /\ scanner'.handlers[h].pc = "ended"
    /\ \E k \in 1..Len(scanner'.handlers[h].settled) :
          scanner'.handlers[h].settled[k] = "true"

\* C26: when handleRegister ends after a successful registration, with
\* generatingProofs back to false, parsedData has been cleared to null, also
\* when the preparation or the generation of the proofs threw.
C26_ParsedDataCleared ==
    [][\A h \in 1..Len(scanner.handlers) :
          GenerationFinishes(h) =>
              /\ scanner'.generatingProofs = FALSE
              /\ scanner'.parsedData = NoData]_vars

Called(handler, call) ==
    \E k \in 1..Len(handler.invoked) : handler.invoked[k] = call

\* handler h receives result in this step
NewlySettled(h, result) ==
    /\ h <= Len(scanner.handlers)
    /\ scanner.handlers[h].settled = <<>>
    /\ \E k \in 1..Len(scanner'.handlers[h].settled) :
          scanner'.handlers[h].settled[k] = result

\* C27: parseAadhaarQR is called only on data that is not a physical card
\* QR and is an mAadhaar QR; parseQRCode is called only after the local parse
\* gave a record; the step becomes 'parsed' and a commitment is set only in
\* a step in which parseQRCode returned success; the step becomes
\* 'registered' only in a step in which registerIdentity returned true.
C27_ScannerOrder ==
    [][/\ \A h \in 1..Len(scanner'.handlers) :
            LET handler == scanner'.handlers[h]
                data == ScannerScans[handler.scan]
            IN  /\ Called(handler, "parseAadhaarQR") =>
                       /\ ~IsPhysicalCardQR(data.qrData)
                       /\ IsMadhaarQR(data.qrData)
                /\ Called(handler, "parseQRCode") =>
                       /\ handler.invoked = <<"parseAadhaarQR", "parseQRCode">>
                       /\ ParseAadhaarQR(data.qrData, Inflate(data.gen)).outcome.kind
                              # "error"
       /\ (\/ scanner.step # "parsed" /\ scanner'.step = "parsed"
           \/ scanner'.commitment \notin {scanner.commitment, NoCommitment})
              => /\ scanner'.step = "parsed"
                 /\ scanner'.commitment # NoCommitment
                 /\ \E h \in 1..Len(scanner'.handlers) :
                       /\ scanner'.handlers[h].kind = "handleQRData"
                       /\ Called(scanner'.handlers[h], "parseQRCode")
                       /\ NewlySettled(h, "success")
       /\ (scanner.step # "registered" /\ scanner'.step = "registered")
              => \E h \in 1..Len(scanner'.handlers) :
                    /\ scanner'.handlers[h].kind = "handleRegister"
                    /\ Called(scanner'.handlers[h], "registerIdentity")
                    /\ NewlySettled(h, "true")]_vars

\* a scan was parsed locally and by the backend, and then registered
C27_Witness ==
    /\ scanner.step = "registered"
    /\ scanner.commitment # NoCommitment
    /\ \E h \in 1..Len(scanner.handlers) :
          /\ scanner.handlers[h].invoked = <<"parseAadhaarQR", "parseQRCode">>
          /\ scanner.handlers[h].settled = <<"resolved", "success">>
    /\ \E h \in 1..Len(scanner.handlers) :
          /\ scanner.handlers[h].kind = "handleRegister"
          /\ scanner.handlers[h].settled[1] = "true"

\* the call made call `first` and later, or never, call `second`
Before(call, first, second) ==
    \A k \in 1..Len(call.invoked) :
       call.invoked[k] = second =>
          \E j \in 1..(k - 1) : call.invoked[j] = first

\* registerIdentity posts only behind an on-chain call, and returns true
\* only behind both the on-chain call and the backend post
RegisterInOrder(call) ==
    /\ Before(call, "registerIdentityOnChain", "post /identity/register")
    /\ call.returned = "true" =>
          /\ Called(call, "registerIdentityOnChain")
          /\ Called(call, "post /identity/register")

\* verifyIdentity goes on-chain only behind the off-chain verification, and
\* a call that returned false before it made no on-chain submission
VerifyInOrder(call) ==
    /\ Before(call, "post /proof/verify", "verifyIdentityOnChain")
    /\ Before(call, "verifyIdentityOnChain", "post /proof/submit")
    /\ call.returned = "true" => Called(call, "post /proof/submit")

\* C28: registerIdentity posts the registration to the backend only after
\* the on-chain transaction returned a signature and returns true only if
\* the on-chain call and the backend both succeeded; verifyIdentity submits
\* on-chain only after the off-chain verification answered isValid.
C28_ChainBeforeBackend ==
    \A c \in 1..Len(provider.calls) :
       LET call == provider.calls[c]
       IN  /\ call.kind = "registerIdentity" =>
                 /\ RegisterInOrder(call)
                 /\ Called(call, "post /identity/register") =>
                        call.txSignature \in Signatures
           /\ call.kind = "verifyIdentity" => VerifyInOrder(call)

\* the order of the calls alone, whatever the posted txSignature is
C28_OrderOfCalls ==
    \A c \in 1..Len(provider.calls) :
       LET call == provider.calls[c]
       IN  /\ call.kind = "registerIdentity" => RegisterInOrder(call)
           /\ call.kind = "verifyIdentity" => VerifyInOrder(call)

\* verifyIdentity goes on-chain only in the step in which the off-chain
\* verification answered, and a registration or a verification returns true
\* only in the step in which the backend answered
C28_OnlyOnAnswer ==
    [][\A c \in 1..Len(provider.calls) :
          LET old == provider.calls[c]
              new == provider'.calls[c]
          IN  /\ (Called(new, "verifyIdentityOnChain")
                     /\ ~Called(old, "verifyIdentityOnChain"))
                    => old.pc = "verifying"
              /\ (new.returned = "true" /\ old.returned # "true")
                    => old.pc \in {"posting", "submitting"}]_vars

====
